---- MODULE Spec2Model ----
(***************************************************************************)
(* sysdash backend (backend/main.go): the background stats collector, the  *)
(* CPU delta tracker, the GPU probe chain, the snapshot cache guarded by   *)
(* statsMutex, and the pull (/api/stats) and push (/api/ws) handlers.      *)
(*                                                                         *)
(* Pointers are heap addresses: 0 is Go's nil, n > 0 is the n-th object    *)
(* allocated.  float64 values are modelled as exact rationals <<n, d>>.    *)
(***************************************************************************)
EXTENDS Integers, Sequences, FiniteSets, TLC

\* Number of iterations of collectStats' loop that are explored.
MaxTicks == 2
\* Largest cumulative CPU time (sum of a core's buckets) a sample may hold.
MaxTime == 2

\* Longest value of UPDATE_INTERVAL_MS among those enumerated exhaustively.
MaxEnvLen == 3

\* Most digits of a memory size among those enumerated exhaustively.
MaxNumLen == 2

\* Go's nil pointer / nil slice reference.
NilPtr == 0
\* What an unsynchronised read of a pointer being written may yield: the
\* address of an object whose fields are not all visible yet.
TornPtr == -1

\* An optional value: None is a nil pointer result, Some(x) a non-nil one.
None == <<>>
Some(x) == <<x>>

Min(a, b) == IF a < b THEN a ELSE b
Abs(n) == IF n < 0 THEN -n ELSE n

RECURSIVE GCD(_, _)
GCD(a, b) == IF b = 0 THEN a ELSE GCD(b, a % b)

\* The rational n/d (d > 0) in lowest terms, standing for a float64.
Rat(n, d) == LET g == GCD(Abs(n), d) IN <<n \div g, d \div g>>
RatZero == <<0, 1>>
RatLeq(x, y) == x[1] * y[2] <= y[1] * x[2]
RatOfInt(n) == <<n, 1>>

(***************************************************************************)
(* CPU delta tracker                                                       *)
(***************************************************************************)

\* cpu.TimesStat: the eight cumulative buckets of one core.
TimesStat(user, idle, iowait) ==
    [User |-> user, System |-> 0, Idle |-> idle, Nice |-> 0,
     Iowait |-> iowait, Irq |-> 0, Softirq |-> 0, Steal |-> 0]

\* t.User + t.System + t.Idle + t.Nice + t.Iowait + t.Irq + t.Softirq + t.Steal
TotalTime(t) ==
    t.User + t.System + t.Idle + t.Nice + t.Iowait + t.Irq + t.Softirq + t.Steal

\* A float64 that is not a finite number (NaN, +Inf, -Inf): x/0.
NotFinite == <<0, 0>>

\* 100 * (1 - idleDelta/totalDelta) in float64 arithmetic.
Percent(idleDelta, totalDelta) ==
    IF totalDelta = 0 THEN NotFinite
    ELSE IF totalDelta > 0 THEN Rat(100 * (totalDelta - idleDelta), totalDelta)
    ELSE Rat(100 * (idleDelta - totalDelta), -totalDelta)

\* Mutant of WritesPercent: the guard lets a zero delta through.
WritesPercentOnZeroDelta(totalDelta) == totalDelta >= 0

\* Whether the loop body writes cpuPercents[i] (the guard of line 96).
WritesPercent(totalDelta) == totalDelta > 0

\* Mutant of UpdateLoop: the vector is cut to the length of the sample.
RECURSIVE UpdateLoopResizes(_, _, _, _)
UpdateLoopResizes(i, times, prev, pcts) ==
    IF i > Len(times) \/ i > Len(prev)
    THEN [percents |-> SubSeq(pcts, 1, Min(Len(pcts), Len(times))),
          panic |-> FALSE]
    ELSE LET totalDelta == TotalTime(times[i]) - TotalTime(prev[i])
             idleDelta  == times[i].Idle - prev[i].Idle
         IN  IF WritesPercent(totalDelta)
             THEN IF i > Len(pcts)
                  THEN [percents |-> pcts, panic |-> TRUE]
                  ELSE UpdateLoopResizes(i + 1, times, prev,
                         [pcts EXCEPT ![i] = Percent(idleDelta, totalDelta)])
             ELSE UpdateLoopResizes(i + 1, times, prev, pcts)

\* The loop of updateCPUPercents from index i on: the vector after the loop,
\* or a panic when a write falls outside the vector (index out of range).
RECURSIVE UpdateLoop(_, _, _, _)
UpdateLoop(i, times, prev, pcts) ==
    IF i > Len(times) \/ i > Len(prev)
    THEN [percents |-> pcts, panic |-> FALSE]
    ELSE LET totalDelta == TotalTime(times[i]) - TotalTime(prev[i])
             idleDelta  == times[i].Idle - prev[i].Idle
         IN  IF WritesPercent(totalDelta)
             THEN IF i > Len(pcts)
                  THEN [percents |-> pcts, panic |-> TRUE]
                  ELSE UpdateLoop(i + 1, times, prev,
                         [pcts EXCEPT ![i] = Percent(idleDelta, totalDelta)])
             ELSE UpdateLoop(i + 1, times, prev, pcts)

\* Mutant of ZeroVector: the vector starts at 100%.
ZeroVectorFullLoad(n) == [i \in 1..n |-> RatOfInt(100)]

\* make([]float64, n)
ZeroVector(n) == [i \in 1..n |-> RatZero]

(***************************************************************************)
(* GPU probe chain                                                         *)
(***************************************************************************)

\* GPUStats
GPUStats(name, total, used, pct, temp) ==
    [Name |-> name, MemoryTotal |-> total, MemoryUsed |-> used,
     UsedPercent |-> pct, Temperature |-> temp]

\* parseRocmSMI: the fields scanned from the output; nil when no name was found.
parseRocmSMI(output) ==
    IF output.Name = "" THEN None ELSE Some(output)

\* The loop of getAMDFromSysfs over the entries of /sys/class/drm from index i.
RECURSIVE SysfsLoop(_, _)
SysfsLoop(i, dirs) ==
    IF i > Len(dirs) THEN None
    ELSE LET d == dirs[i] IN
         IF ~d.card \/ d.vendor # "0x1002" THEN SysfsLoop(i + 1, dirs)
         ELSE LET name == IF d.product = None THEN "AMD GPU" ELSE d.product[1]
                  gpu  == GPUStats(name, d.total, d.used, d.busy, d.temp)
              IN  IF gpu.Name # "" THEN Some(gpu) ELSE SysfsLoop(i + 1, dirs)

\* getAMDFromSysfs: nil when the directory cannot be read.
getAMDFromSysfs(sysfs) ==
    IF sysfs = None THEN None ELSE SysfsLoop(1, sysfs[1])

\* getAMDGPU: rocm-smi when the command runs, else the sysfs fallback.
getAMDGPU(o) ==
    IF o.rocm # None THEN parseRocmSMI(o.rocm[1]) ELSE getAMDFromSysfs(o.sysfs)

\* getNVIDIAGPU: nil when the command fails or prints fewer than 5 fields.
getNVIDIAGPU(o) ==
    IF o.nvidia = None THEN None
    ELSE IF o.nvidia[1].parts < 5 THEN None
    ELSE Some(GPUStats(o.nvidia[1].name, o.nvidia[1].total * 1024 * 1024,
                       o.nvidia[1].used * 1024 * 1024, o.nvidia[1].usage,
                       o.nvidia[1].temp))

\* getWindowsGPU: name and total memory only.
getWindowsGPU(o) ==
    IF o.wmi = None THEN None
    ELSE IF o.wmi[1].parts < 2 \/ o.wmi[1].name = "" THEN None
    ELSE Some(GPUStats(o.wmi[1].name, o.wmi[1].total, 0, 0, 0))

\* getGPUStats: AMD on linux, then NVIDIA, then WMI on windows.
getGPUStats(os, o) ==
    IF os = "linux" /\ getAMDGPU(o) # None THEN getAMDGPU(o)
    ELSE IF getNVIDIAGPU(o) # None THEN getNVIDIAGPU(o)
    ELSE IF os = "windows" /\ getWindowsGPU(o) # None THEN getWindowsGPU(o)
    ELSE None

(***************************************************************************)
(* Machine integers and strings                                            *)
(***************************************************************************)

\* A natural number of any size is the sequence of its digits in base 2^16,
\* least significant first, without leading zeros (<<>> is 0).
Limb == 2^16

RECURSIVE NatOf(_)
NatOf(n) == IF n = 0 THEN <<>> ELSE <<n % Limb>> \o NatOf(n \div Limb)

\* x * k + a, for a multiplier of at most 2^15 and an addend below 2^15.
RECURSIVE NatMulAdd(_, _, _)
NatMulAdd(x, k, a) ==
    IF x = <<>> \/ k = 0 THEN NatOf(a)
    ELSE LET p == Head(x) * k + a
         IN  <<p % Limb>> \o NatMulAdd(Tail(x), k, p \div Limb)

\* x * 2^n
NatShl(x, n) ==
    IF x = <<>> THEN <<>>
    ELSE [i \in 1..(n \div 16) |-> 0] \o NatMulAdd(x, 2^(n % 16), 0)

\* x < y, comparing from digit i down; NatLess compares two numbers.
RECURSIVE NatLessFrom(_, _, _)
NatLessFrom(x, y, i) ==
    IF i = 0 THEN FALSE
    ELSE IF x[i] # y[i] THEN x[i] < y[i]
    ELSE NatLessFrom(x, y, i - 1)
NatLess(x, y) ==
    IF Len(x) # Len(y) THEN Len(x) < Len(y) ELSE NatLessFrom(x, y, Len(x))

\* The 64 bits of an int64, uint64 or time.Duration holding x (that is,
\* x mod 2^64) as four digits, and the natural number 64 bits stand for.
Bits64(x) == [i \in 1..4 |-> IF i <= Len(x) THEN x[i] ELSE 0]
RECURSIVE NatTrim(_)
NatTrim(b) ==
    IF b = <<>> THEN <<>>
    ELSE IF b[Len(b)] = 0 THEN NatTrim(SubSeq(b, 1, Len(b) - 1))
    ELSE b

\* Whether the int64 with bits b is negative, and whether it is at least the
\* natural number n.
Int64Negative(b) == b[4] >= Limb \div 2
Int64AtLeast(b, n) == ~Int64Negative(b) /\ ~NatLess(NatTrim(b), n)

\* A string is the sequence of its characters.
DigitChars == <<"0", "1", "2", "3", "4", "5", "6", "7", "8", "9">>
IsDigit(c) == \E d \in 1..10 : DigitChars[d] = c
DigitValue(c) == (CHOOSE d \in 1..10 : DigitChars[d] = c) - 1
\* The decimal numeral with the digits ds.
Numeral(ds) == [i \in DOMAIN ds |-> DigitChars[ds[i] + 1]]

\* The number a sequence of decimal digits denotes, continuing from acc.
RECURSIVE ParseNat(_, _)
ParseNat(s, acc) ==
    IF s = <<>> THEN acc
    ELSE ParseNat(Tail(s), NatMulAdd(acc, 10, DigitValue(Head(s))))

\* An int is its sign and its magnitude.  MaxInt is the largest int of the
\* 64-bit builds of the Makefile.
IntOf(n) == [neg |-> n < 0, mag |-> NatOf(Abs(n))]
MaxInt == [neg |-> FALSE,
           mag |-> [i \in 1..4 |-> IF i < 4 THEN Limb - 1 ELSE Limb \div 2 - 1]]
MinInt == [neg |-> TRUE, mag |-> NatShl(NatOf(1), 63)]
IntLess(x, y) ==
    IF x.neg # y.neg THEN x.neg
    ELSE IF x.neg THEN NatLess(y.mag, x.mag) ELSE NatLess(x.mag, y.mag)

\* strconv.Atoi with its error dropped: an optional sign and decimal digits;
\* 0 on a syntax error, the nearest int on a range error.
Atoi(s) ==
    LET signed == s # <<>> /\ Head(s) \in {"+", "-"}
        digits == IF signed THEN Tail(s) ELSE s
        mag    == ParseNat(digits, <<>>)
    IN  IF digits = <<>> \/ \E i \in DOMAIN digits : ~IsDigit(digits[i])
        THEN IntOf(0)
        ELSE IF signed /\ Head(s) = "-"
        THEN IF NatLess(MinInt.mag, mag) THEN MinInt
             ELSE [neg |-> mag # <<>>, mag |-> mag]
        ELSE IF NatLess(MaxInt.mag, mag) THEN MaxInt
             ELSE [neg |-> FALSE, mag |-> mag]

(***************************************************************************)
(* float64 of natural numbers, and strings                                 *)
(***************************************************************************)

NatOdd(x) == x # <<>> /\ x[1] % 2 = 1
\* The number of binary digits of x.
RECURSIVE DigitBits(_)
DigitBits(n) == IF n = 0 THEN 0 ELSE 1 + DigitBits(n \div 2)
NatBitLen(x) ==
    IF x = <<>> THEN 0 ELSE 16 * (Len(x) - 1) + DigitBits(x[Len(x)])
\* Whether binary digit j of x (digit 0 is the lowest) is 1.
NatBit(x, j) ==
    /\ j \div 16 < Len(x)
    /\ (x[j \div 16 + 1] \div 2^(j % 16)) % 2 = 1
\* x \div 2^n
NatShr(x, n) ==
    LET y == SubSeq(x, n \div 16 + 1, Len(x))
        r == n % 16
    IN  NatTrim([i \in 1..Len(y) |->
                    y[i] \div 2^r
                    + (IF i < Len(y) THEN (y[i + 1] % 2^r) * 2^(16 - r)
                       ELSE 0)])

\* A non-negative float64 with an integer value is m * 2^e, m below 2^53 or
\* equal to it.  Float64 is the float64 nearest to x * 2^e (ties to even).
Float64(x, e) ==
    IF NatBitLen(x) <= 53 THEN [m |-> x, e |-> e]
    ELSE LET s    == NatBitLen(x) - 53
             q    == NatShr(x, s)
             half == NatBit(x, s - 1)
             more == \E j \in 0..(s - 2) : NatBit(x, j)
         IN  [m |-> IF half /\ (more \/ NatOdd(q))
                    THEN NatMulAdd(q, 1, 1) ELSE q,
              e |-> e + s]

\* f * float64(k1 * ... * kn) for the factors ks of an integer below 2^53.
RECURSIVE NatTimes(_, _)
NatTimes(x, ks) ==
    IF ks = <<>> THEN x ELSE NatTimes(NatMulAdd(x, Head(ks), 0), Tail(ks))
Float64Times(f, ks) == Float64(NatTimes(f.m, ks), f.e)

\* uint64(f): the results the conversion may give.  A value that a uint64
\* cannot hold converts to an implementation-dependent result: 0, 2^63 or
\* 2^64 - 1, according to the architecture.
Uint64Of(f) ==
    LET v == NatShl(f.m, f.e)
    IN  IF NatBitLen(v) <= 64 THEN {Bits64(v)}
        ELSE {Bits64(<<>>), Bits64(NatShl(NatOf(1), 63)),
              [i \in 1..4 |-> Limb - 1]}

\* strings.ToLower, on the letters of the unit suffixes.
UpperChars == <<"G", "M", "K", "B">>
LowerChars == <<"g", "m", "k", "b">>
ToLower(s) ==
    [i \in DOMAIN s |->
        IF \E j \in 1..4 : UpperChars[j] = s[i]
        THEN LowerChars[CHOOSE j \in 1..4 : UpperChars[j] = s[i]]
        ELSE s[i]]

\* strings.TrimSpace
IsSpace(c) == c \in {" ", "\t"}
RECURSIVE TrimLeft(_)
TrimLeft(s) ==
    IF s # <<>> /\ IsSpace(Head(s)) THEN TrimLeft(Tail(s)) ELSE s
RECURSIVE TrimRight(_)
TrimRight(s) ==
    IF s # <<>> /\ IsSpace(s[Len(s)])
    THEN TrimRight(SubSeq(s, 1, Len(s) - 1)) ELSE s
TrimSpace(s) == TrimRight(TrimLeft(s))

\* strings.HasSuffix, strings.TrimSuffix
HasSuffix(s, suffix) ==
    /\ Len(s) >= Len(suffix)
    /\ SubSeq(s, Len(s) - Len(suffix) + 1, Len(s)) = suffix
TrimSuffix(s, suffix) ==
    IF HasSuffix(s, suffix) THEN SubSeq(s, 1, Len(s) - Len(suffix)) ELSE s

\* strconv.ParseFloat(s, 64) with its error dropped, for strings of decimal
\* digits, spaces and letters other than those of a float literal: the
\* float64 nearest to a string of digits, 0 on a syntax error.
ParseFloat(s) ==
    IF s = <<>> \/ \E i \in DOMAIN s : ~IsDigit(s[i])
    THEN Float64(<<>>, 0)
    ELSE Float64(ParseNat(s, <<>>), 0)

(***************************************************************************)
(* parseMemoryValue                                                        *)
(***************************************************************************)

\* Mutant of UnitFactors: decimal multipliers.
UnitFactorsDecimal(s) ==
    IF HasSuffix(s, <<"g", "b">>) THEN <<1000, 1000, 1000>>
    ELSE IF HasSuffix(s, <<"m", "b">>) THEN <<1000, 1000>>
    ELSE IF HasSuffix(s, <<"k", "b">>) THEN <<1000>>
    ELSE <<>>

\* Lines 269-280: the factors of multiplier for the trimmed, lower-case s.
UnitFactors(s) ==
    IF HasSuffix(s, <<"g", "b">>) THEN <<1024, 1024, 1024>>
    ELSE IF HasSuffix(s, <<"m", "b">>) THEN <<1024, 1024>>
    ELSE IF HasSuffix(s, <<"k", "b">>) THEN <<1024>>
    ELSE <<>>

\* Lines 271-280: s without the suffix that set the multiplier.
StripUnit(s) ==
    IF HasSuffix(s, <<"g", "b">>) THEN TrimSuffix(s, <<"g", "b">>)
    ELSE IF HasSuffix(s, <<"m", "b">>) THEN TrimSuffix(s, <<"m", "b">>)
    ELSE IF HasSuffix(s, <<"k", "b">>) THEN TrimSuffix(s, <<"k", "b">>)
    ELSE s

\* parseMemoryValue: the uint64 results it may return for s.
parseMemoryValue(s) ==
    LET low == ToLower(TrimSpace(s))
        val == ParseFloat(TrimSpace(StripUnit(low)))
    IN  Uint64Of(Float64Times(val, UnitFactors(low)))

(***************************************************************************)
(* Configuration                                                           *)
(***************************************************************************)

\* getEnv: the variable's value unless it is unset or empty.
getEnv(environ, key, fallback) ==
    IF environ[key] # <<>> THEN environ[key] ELSE fallback

\* time.Duration(ms) * time.Millisecond, Millisecond being 1000 * 1000
\* nanoseconds: an int64 product, which wraps around.
Milliseconds(ms) == Bits64(NatMulAdd(NatMulAdd(ms, 1000, 0), 1000, 0))

\* Lines 59-61: the floor of the interval.
FloorMs(intervalMs) ==
    IF IntLess(intervalMs, IntOf(100)) THEN IntOf(100) ELSE intervalMs

\* loadConfig: the Config it leaves in config.
loadConfig(environ) ==
    [Port           |-> getEnv(environ, "PORT", Numeral(<<8, 0, 8, 0>>)),
     DiskPath       |-> getEnv(environ, "DISK_PATH", <<"/">>),
     Hostname       |-> getEnv(environ, "HOSTNAME", <<>>),
     UpdateInterval |->
         Milliseconds(FloorMs(Atoi(getEnv(environ, "UPDATE_INTERVAL_MS",
                                          Numeral(<<5, 0, 0>>)))).mag)]

(***************************************************************************)
(* Program state                                                           *)
(***************************************************************************)

VARIABLES
    env,             \* the process environment: variable name -> value
    config,          \* var config Config
    mainPc,          \* where main is: before loadConfig, or serving
    memIn,           \* the parseMemoryValue call under study: its argument
    memOut,          \* its result, None before the call returns
    goos,            \* runtime.GOOS
    staticCPUCores,  \* physical core count resolved by initStaticInfo
    prevCPUTimes,    \* []cpu.TimesStat; <<>> is the nil slice
    cpuPercents,     \* []float64: address of its backing array, NilPtr when nil
    arrays,          \* the []float64 backing arrays allocated so far
    heap,            \* the Stats objects allocated so far
    cachedStats,     \* *Stats: address in heap, NilPtr when nil
    statsMutex,      \* sync.RWMutex: writer, writer waiting, readers holding it
    colPc,           \* where the collectStats goroutine is
    tick,            \* iterations of collectStats' loop started
    cpuRes,          \* result of the last cpu.Times call: None is an error
    probe,           \* locals of getStatsNonBlocking and the goroutines pending
    colStats,        \* collectStats' local stats (NilPtr with err set)
    ws,              \* per streaming connection: position, local stats, last sent
    pull,            \* per pull handler: position, local stats, last response
    gpuIn,           \* what the GPU backends answer (stage outcomes)
    gpuOut           \* result of the last getGPUStats call

\* The state outside the collector and the handlers.
mainVars == <<env, config, mainPc, memIn, memOut>>

vars == <<mainVars, goos, staticCPUCores, prevCPUTimes, cpuPercents, arrays,
          heap, cachedStats, statsMutex, colPc, tick, cpuRes, probe, colStats,
          ws, pull, gpuIn, gpuOut>>

\* Streaming connections and pull handlers that may run.
Conns == {"c1", "c2"}
Pulls == {"p1"}

(***************************************************************************)
(* What the host may answer to the probes                                  *)
(***************************************************************************)

\* Per-core times with user + idle + iowait <= maxT; iowait is 0 or 1.
CoreTimes(maxT) ==
    {TimesStat(u, i, w) : <<u, i, w>> \in
        {x \in (0..maxT) \X (0..maxT) \X (0..1) : x[1] + x[2] + x[3] <= maxT}}

\* cpu.Times(true) after sample prev: per-CPU entries for one of the
\* cardinalities in cards; user and idle time never decrease on a core both
\* samples have (iowait may: proc(5)).
CpuSamples(times, cards, prev) ==
    {s \in UNION {[1..n -> times] : n \in cards} :
        \A i \in 1..Min(Len(s), Len(prev)) :
            s[i].User >= prev[i].User /\ s[i].Idle >= prev[i].Idle}

\* mem.VirtualMemoryStat / disk.UsageStat / net.IOCountersStat / host.InfoStat
MemStat(total, used) ==
    [Total |-> total, Used |-> used, Available |-> total - used,
     UsedPercent |-> Rat(100 * used, total)]
DiskStat(total, used) ==
    [Total |-> total, Used |-> used, Free |-> total - used,
     UsedPercent |-> Rat(100 * used, total)]
IOCounter(name, sent, recv) ==
    [Name |-> name, BytesSent |-> sent, BytesRecv |-> recv]

\* The GPU backends' answers: rocm-smi, /sys/class/drm, nvidia-smi, WMI.
GpuAnswer(rocm, sysfs, nvidia, wmi) ==
    [rocm |-> rocm, sysfs |-> sysfs, nvidia |-> nvidia, wmi |-> wmi]
DrmEntry(card, vendor, product) ==
    [card |-> card, vendor |-> vendor, product |-> product,
     total |-> 16, used |-> 4, busy |-> 25, temp |-> 40]
NvidiaOut(parts, name) ==
    [parts |-> parts, name |-> name, total |-> 8, used |-> 2, usage |-> 10,
     temp |-> 50]
WmiOut(parts, name) == [parts |-> parts, name |-> name, total |-> 4]

NoGpu == GpuAnswer(None, None, None, None)
NvidiaOnly == GpuAnswer(None, None, Some(NvidiaOut(5, "nvidia")), None)

RocmAnswers ==
    {None, Some(GPUStats("", 0, 0, 0, 0)), Some(GPUStats("rocm", 8, 1, 5, 30))}
SysfsAnswers ==
    {None, Some(<<>>),
     Some(<<DrmEntry(TRUE, "0x1002", Some("sysfs"))>>),
     Some(<<DrmEntry(TRUE, "0x1002", None)>>),
     Some(<<DrmEntry(FALSE, "0x1002", Some("sysfs")),
            DrmEntry(TRUE, "0x10de", Some("other"))>>),
     Some(<<DrmEntry(TRUE, "0x1002", Some("")),
            DrmEntry(TRUE, "0x1002", Some("sysfs2"))>>)}
NvidiaAnswers ==
    {None, Some(NvidiaOut(1, "")), Some(NvidiaOut(5, "nvidia")),
     Some(NvidiaOut(6, "nvidia2"))}
WmiAnswers ==
    {None, Some(WmiOut(1, "")), Some(WmiOut(2, "")), Some(WmiOut(2, "wmi"))}
GpuAnswers ==
    {GpuAnswer(r, s, n, w) : <<r, s, n, w>> \in
        RocmAnswers \X SysfsAnswers \X NvidiaAnswers \X WmiAnswers}

\* The inputs a specification explores: the host's possible answers.
Inputs(times, cards, cpuErr, mem, disk, net, gpu, uptime) ==
    [times |-> times, cards |-> cards, cpuErr |-> cpuErr, mem |-> mem,
     disk |-> disk, net |-> net, gpu |-> gpu, uptime |-> uptime]

Eth0 == IOCounter("eth0", 100, 200)
\* Collector alone: every probe may fail, several readings.
ProbeInputs ==
    Inputs({TimesStat(u, 0, 0) : u \in 0..1}, {1}, {TRUE, FALSE},
           {None, Some(MemStat(8, 4))}, {None, Some(DiskStat(100, 50))},
           {None, Some(<<IOCounter("lo", 0, 0), Eth0,
                         IOCounter("wlan0", 0, 5)>>)},
           {NoGpu, NvidiaOnly}, {None, Some([Uptime |-> 10])})
\* Delta tracker alone: samples of one or two cores.
DeltaInputs ==
    Inputs(CoreTimes(MaxTime), {1, 2}, {TRUE, FALSE},
           {Some(MemStat(8, 4))}, {Some(DiskStat(100, 50))},
           {Some(<<Eth0>>)}, {NoGpu}, {Some([Uptime |-> 10])})
\* Delta tracker alone: samples of one, two or three cores, the CPU probe and
\* a mandatory probe may fail.
CoresInputs ==
    Inputs({TimesStat(u, i, 0) : <<u, i>> \in {<<0, 0>>, <<1, 0>>, <<1, 1>>}},
           {1, 2, 3}, {TRUE, FALSE},
           {Some(MemStat(8, 4))}, {None, Some(DiskStat(100, 50))},
           {Some(<<Eth0>>)}, {NoGpu}, {Some([Uptime |-> 10])})
\* Collector and a pull handler: the memory and the disk probe may fail.
MandatoryInputs ==
    Inputs({TimesStat(u, 0, 0) : u \in 0..1}, {1}, {FALSE},
           {None, Some(MemStat(8, 4))}, {None, Some(DiskStat(100, 50))},
           {Some(<<Eth0>>)}, {NoGpu}, {Some([Uptime |-> 10])})
\* Collector with readers: the disk probe may fail, the CPU may be busy or not.
ServeInputs ==
    Inputs({TimesStat(u, 0, 0) : u \in 0..1}, {1}, {FALSE},
           {Some(MemStat(8, 4))}, {None, Some(DiskStat(100, 50))},
           {Some(<<Eth0>>)}, {NoGpu}, {Some([Uptime |-> 10])})

\* Collector alone, every mandatory probe answering: CPU samples 100 ticks
\* apart, several memory readings and interface lists, GPU present or not.
AssembleInputs ==
    Inputs({TimesStat(0, 0, 0), TimesStat(50, 50, 0), TimesStat(75, 125, 0)},
           {1}, {FALSE},
           {Some(MemStat(8, 4)), Some(MemStat(16, 4))},
           {Some(DiskStat(100, 50))},
           {None, Some(<<>>), Some(<<IOCounter("lo", 0, 0), Eth0>>),
            Some(<<IOCounter("wlan0", 0, 5), IOCounter("lo", 0, 0),
                   IOCounter("tun0", 7, 0), Eth0>>)},
           {NoGpu, NvidiaOnly}, {Some([Uptime |-> 10])})

\* Collector with the configuration under study: every probe answers.
ConfigInputs ==
    Inputs({TimesStat(0, 0, 0)}, {1}, {FALSE}, {Some(MemStat(8, 4))},
           {Some(DiskStat(100, 50))}, {Some(<<Eth0>>)}, {NoGpu},
           {Some([Uptime |-> 10])})

\* Values of UPDATE_INTERVAL_MS: every string of at most MaxEnvLen of these
\* characters, and numerals around the floor, the default, the largest
\* number of milliseconds an int64 of nanoseconds holds, and the largest int.
EnvChars == {"0", "1", "5", "-", "+", "x"}
LargeIntervals ==
    {Numeral(<<9, 9, 9, 9>>), Numeral(<<6, 0, 0, 0, 0>>),
     Numeral(<<9, 2, 2, 3, 3, 7, 2, 0, 3, 6, 8, 5, 4>>),
     Numeral(<<9, 2, 2, 3, 3, 7, 2, 0, 3, 6, 8, 5, 5>>),
     Numeral(<<1, 8, 4, 4, 6, 7, 4, 4, 0, 7, 3, 7, 1, 0>>),
     Numeral(<<9, 2, 2, 3, 3, 7, 2, 0, 3, 6, 8, 5, 4, 7, 7, 5, 8, 0, 7>>),
     Numeral(<<9, 2, 2, 3, 3, 7, 2, 0, 3, 6, 8, 5, 4, 7, 7, 5, 8, 0, 8>>),
     <<"-">> \o Numeral(<<9, 2, 2, 3, 3, 7, 2, 0, 3, 6, 8, 5, 4, 7, 7, 5,
                          8, 0, 9>>)}
IntervalSettings ==
    UNION {[1..n -> EnvChars] : n \in 0..MaxEnvLen} \cup LargeIntervals

(***************************************************************************)
(* Initial state: main() after loadConfig and initStaticInfo               *)
(***************************************************************************)

NoCall ==
    [pending |-> {}, memInfo |-> None, diskInfo |-> None, netInfo |-> None,
     netStats |-> <<>>, gpuStats |-> None, hostInfo |-> None, uptime |-> 0]

\* The environment with every variable unset.
NoEnv ==
    [k \in {"PORT", "DISK_PATH", "HOSTNAME", "UPDATE_INTERVAL_MS",
            "UPDATE_INTERVAL"} |-> <<>>]

\* The collector and the handlers before their first step.
InitServer(oses, cores) ==
    /\ goos \in oses
    /\ staticCPUCores \in cores
    /\ prevCPUTimes = <<>>
    /\ cpuPercents = NilPtr
    /\ arrays = <<>>
    /\ heap = <<>>
    /\ cachedStats = NilPtr
    /\ statsMutex = [writer |-> FALSE, waiting |-> FALSE, readers |-> {}]
    /\ colPc = "init"
    /\ tick = 0
    /\ cpuRes = None
    /\ probe = NoCall
    /\ colStats = NilPtr
    /\ ws = [c \in Conns |-> [pc |-> "accept", stats |-> NilPtr, last |-> NilPtr]]
    /\ pull = [h \in Pulls |-> [pc |-> "idle", stats |-> NilPtr, resp |-> None]]
    /\ gpuIn = NoGpu
    /\ gpuOut = None

\* Nothing is set in the environment and main has called loadConfig.
InitOn(oses, cores) ==
    /\ env = NoEnv
    /\ config = loadConfig(NoEnv)
    /\ mainPc = "serve"
    /\ memIn = None
    /\ memOut = None
    /\ InitServer(oses, cores)

\* A panic in any goroutine ends the process.
Alive == colPc # "crashed"

(***************************************************************************)
(* collectStats                                                            *)
(***************************************************************************)

\* cpu.Times(true): an error (None) where the host may fail, or a sample.
CpuTimesResults(in) ==
    (IF TRUE \in in.cpuErr THEN {None} ELSE {})
    \cup {Some(s) : s \in CpuSamples(in.times, in.cards, prevCPUTimes)}

\* updateCPUPercents, called by collectStats which goes on at nextPc.
updateCPUPercents(in, nextPc) ==
    \E r \in CpuTimesResults(in) :
        IF r = None
        THEN /\ cpuRes' = None
             /\ colPc' = nextPc
             /\ UNCHANGED <<prevCPUTimes, cpuPercents, arrays>>
        ELSE /\ cpuRes' = r
             /\ IF prevCPUTimes = <<>>
                THEN /\ prevCPUTimes' = r[1]
                     /\ arrays' = Append(arrays, ZeroVector(Len(r[1])))
                     /\ cpuPercents' = Len(arrays) + 1
                     /\ colPc' = nextPc
                ELSE LET u == UpdateLoop(1, r[1], prevCPUTimes,
                                         arrays[cpuPercents])
                     IN  /\ arrays' = [arrays EXCEPT ![cpuPercents] = u.percents]
                         /\ cpuPercents' = cpuPercents
                         /\ IF u.panic
                            THEN colPc' = "crashed" /\ prevCPUTimes' = prevCPUTimes
                            ELSE colPc' = nextPc /\ prevCPUTimes' = r[1]

\* Line 114: the initial CPU sample, before the loop.
ColInitialSample(in) ==
    /\ colPc = "init"
    /\ updateCPUPercents(in, "tick")
    /\ UNCHANGED <<mainVars, goos, staticCPUCores, heap, cachedStats,
                   statsMutex, tick, probe, colStats, ws, pull, gpuIn,
                   gpuOut>>

\* Lines 117-119: a loop iteration starts: updateCPUPercents, then
\* getStatsNonBlocking starts its five goroutines.
ColTick(in) ==
    /\ colPc = "tick"
    /\ tick < MaxTicks
    /\ tick' = tick + 1
    /\ updateCPUPercents(in, "probe")
    /\ probe' = IF colPc' = "probe"
                THEN [NoCall EXCEPT !.pending =
                         {"mem", "disk", "net", "gpu", "uptime"}]
                ELSE probe
    /\ UNCHANGED <<mainVars, goos, staticCPUCores, heap, cachedStats,
                   statsMutex, colStats, ws, pull, gpuIn, gpuOut>>

ProbeFrame ==
    UNCHANGED <<mainVars, goos, staticCPUCores, prevCPUTimes, cpuPercents,
                arrays, heap, cachedStats, statsMutex, colPc, tick, cpuRes,
                colStats, ws, pull>>

\* Lines 437-440: memInfo, _ = mem.VirtualMemory()
ProbeMem(in) ==
    /\ colPc = "probe" /\ "mem" \in probe.pending
    /\ \E m \in in.mem :
          probe' = [probe EXCEPT !.memInfo = m, !.pending = @ \ {"mem"}]
    /\ ProbeFrame /\ UNCHANGED <<gpuIn, gpuOut>>

\* Lines 442-445: diskInfo, _ = disk.Usage(config.DiskPath)
ProbeDisk(in) ==
    /\ colPc = "probe" /\ "disk" \in probe.pending
    /\ \E d \in in.disk :
          probe' = [probe EXCEPT !.diskInfo = d, !.pending = @ \ {"disk"}]
    /\ ProbeFrame /\ UNCHANGED <<gpuIn, gpuOut>>

\* Mutant of NetFilter: an interface needs traffic in both directions.
RECURSIVE NetFilterBothDirections(_)
NetFilterBothDirections(netInfo) ==
    IF netInfo = <<>> THEN <<>>
    ELSE LET n == Head(netInfo) IN
         (IF n.BytesSent > 0 /\ n.BytesRecv > 0
          THEN <<[Name |-> n.Name, BytesSent |-> n.BytesSent,
                  BytesRecv |-> n.BytesRecv]>>
          ELSE <<>>) \o NetFilterBothDirections(Tail(netInfo))

\* The loop of lines 450-458: interfaces with traffic, in probe order.
RECURSIVE NetFilter(_)
NetFilter(netInfo) ==
    IF netInfo = <<>> THEN <<>>
    ELSE LET n == Head(netInfo) IN
         (IF n.BytesSent > 0 \/ n.BytesRecv > 0
          THEN <<[Name |-> n.Name, BytesSent |-> n.BytesSent,
                  BytesRecv |-> n.BytesRecv]>>
          ELSE <<>>) \o NetFilter(Tail(netInfo))

\* Lines 447-459: net.IOCounters(true); an error leaves netInfo nil.
ProbeNet(in) ==
    /\ colPc = "probe" /\ "net" \in probe.pending
    /\ \E n \in in.net :
          probe' = [probe EXCEPT
                       !.netInfo = n,
                       !.netStats = IF n = None THEN <<>> ELSE NetFilter(n[1]),
                       !.pending = @ \ {"net"}]
    /\ ProbeFrame /\ UNCHANGED <<gpuIn, gpuOut>>

\* Lines 461-464: gpuStats = getGPUStats()
ProbeGpu(in) ==
    /\ colPc = "probe" /\ "gpu" \in probe.pending
    /\ \E o \in in.gpu :
          /\ gpuIn' = o
          /\ gpuOut' = getGPUStats(goos, o)
          /\ probe' = [probe EXCEPT !.gpuStats = getGPUStats(goos, o),
                                    !.pending = @ \ {"gpu"}]
    /\ ProbeFrame

\* Lines 466-472: host.Info(); uptime stays 0 when hostInfo is nil.
ProbeUptime(in) ==
    /\ colPc = "probe" /\ "uptime" \in probe.pending
    /\ \E h \in in.uptime :
          probe' = [probe EXCEPT
                       !.hostInfo = h,
                       !.uptime = IF h # None THEN h[1].Uptime ELSE 0,
                       !.pending = @ \ {"uptime"}]
    /\ ProbeFrame /\ UNCHANGED <<gpuIn, gpuOut>>

\* getCPUPercents: the contents of a fresh slice (make + copy).
getCPUPercents ==
    IF cpuPercents = NilPtr THEN <<>> ELSE arrays[cpuPercents]

\* Mutant of AllocPercent: the tracker's own slice is handed out.
AllocPercentShared ==
    IF cpuPercents = NilPtr
    THEN [addr |-> Len(arrays) + 1, arrays |-> Append(arrays, <<>>)]
    ELSE [addr |-> cpuPercents, arrays |-> arrays]

\* Lines 107-109 and 489: the slice getCPUPercents returns is a new backing
\* array holding a copy; addr is its address, arrays the arrays thereafter.
AllocPercent ==
    [addr |-> Len(arrays) + 1, arrays |-> Append(arrays, getCPUPercents)]

\* Mutant of MandatoryMissing: every probe is treated as mandatory.
MandatoryMissingAnyProbe ==
    \/ probe.memInfo = None \/ probe.diskInfo = None
    \/ probe.netInfo = None \/ probe.gpuStats = None \/ probe.hostInfo = None

\* Line 476: the mandatory readings.
MandatoryMissing == probe.memInfo = None \/ probe.diskInfo = None

\* Lines 480-506: the Stats literal; percent is the address of its Percent slice.
NewStats(percent) ==
    [Hostname |-> "host",
     Uptime   |-> probe.uptime,
     OS       |-> goos,
     CPU      |-> [Cores |-> staticCPUCores, Percent |-> percent],
     Memory   |-> [Total |-> probe.memInfo[1].Total,
                   Used |-> probe.memInfo[1].Used,
                   Available |-> probe.memInfo[1].Available,
                   UsedPercent |-> probe.memInfo[1].UsedPercent],
     Disk     |-> [Path |-> "/",
                   Total |-> probe.diskInfo[1].Total,
                   Used |-> probe.diskInfo[1].Used,
                   Free |-> probe.diskInfo[1].Free,
                   UsedPercent |-> probe.diskInfo[1].UsedPercent],
     Network  |-> probe.netStats,
     GPU      |-> probe.gpuStats]

\* Mutant of AfterGetStats: the result is stored whatever err is.
AfterGetStatsAlwaysStores(err) == "lock"

\* Lines 120-123: an error is logged and the iteration goes to sleep; a
\* result is published.
AfterGetStats(err) == IF err THEN "sleep" ELSE "lock"

\* Mutant of WaitReturns: only the mandatory probes are waited for.
WaitReturnsAfterMandatory == probe.pending \cap {"mem", "disk"} = {}

\* Lines 435 and 474: wg.Wait() returns when the five goroutines are done.
WaitReturns == probe.pending = {}

\* Lines 474-507 and 119-122: wg.Wait returns, getStatsNonBlocking returns an
\* error or a new Stats object.
ColAssemble ==
    /\ colPc = "probe" /\ WaitReturns
    /\ IF MandatoryMissing
       THEN /\ colStats' = NilPtr
            /\ colPc' = AfterGetStats(TRUE)
            /\ UNCHANGED <<arrays, heap>>
       ELSE /\ arrays' = AllocPercent.arrays
            /\ heap' = Append(heap, NewStats(AllocPercent.addr))
            /\ colStats' = Len(heap) + 1
            /\ colPc' = AfterGetStats(FALSE)
    /\ UNCHANGED <<mainVars, goos, staticCPUCores, prevCPUTimes, cpuPercents,
                   cachedStats, statsMutex, tick, cpuRes, probe, ws, pull,
                   gpuIn, gpuOut>>

\* Line 123, statsMutex.Lock(): the writer announces itself; readers arriving
\* later wait for it (sync.RWMutex).
ColLockRequest ==
    /\ colPc = "lock"
    /\ statsMutex' = [statsMutex EXCEPT !.waiting = TRUE]
    /\ colPc' = "lockwait"
    /\ UNCHANGED <<mainVars, goos, staticCPUCores, prevCPUTimes, cpuPercents,
                   arrays, heap, cachedStats, tick, cpuRes, probe, colStats,
                   ws, pull, gpuIn, gpuOut>>

\* Whether Lock() can return: no reader holds the mutex.
LockFree == statsMutex.readers = {} /\ ~statsMutex.writer

\* Line 123, statsMutex.Lock() returns.
ColLock ==
    /\ colPc = "lockwait"
    /\ LockFree
    /\ statsMutex' = [statsMutex EXCEPT !.waiting = FALSE, !.writer = TRUE]
    /\ colPc' = "store"
    /\ UNCHANGED <<mainVars, goos, staticCPUCores, prevCPUTimes, cpuPercents,
                   arrays, heap, cachedStats, tick, cpuRes, probe, colStats,
                   ws, pull, gpuIn, gpuOut>>

\* Line 124: cachedStats = stats
ColStore ==
    /\ colPc = "store"
    /\ cachedStats' = colStats
    /\ colPc' = "unlock"
    /\ UNCHANGED <<mainVars, goos, staticCPUCores, prevCPUTimes, cpuPercents,
                   arrays, heap, statsMutex, tick, cpuRes, probe, colStats,
                   ws, pull, gpuIn, gpuOut>>

\* Line 125: statsMutex.Unlock()
ColUnlock ==
    /\ colPc = "unlock"
    /\ statsMutex' = [statsMutex EXCEPT !.writer = FALSE]
    /\ colPc' = "sleep"
    /\ UNCHANGED <<mainVars, goos, staticCPUCores, prevCPUTimes, cpuPercents,
                   arrays, heap, cachedStats, tick, cpuRes, probe, colStats,
                   ws, pull, gpuIn, gpuOut>>

\* Line 127: time.Sleep(config.UpdateInterval) returns.
ColWake ==
    /\ colPc = "sleep"
    /\ colPc' = "tick"
    /\ UNCHANGED <<mainVars, goos, staticCPUCores, prevCPUTimes, cpuPercents,
                   arrays, heap, cachedStats, statsMutex, tick, cpuRes, probe,
                   colStats, ws, pull, gpuIn, gpuOut>>

Collector(in) ==
    \/ ColInitialSample(in)
    \/ ColTick(in)
    \/ ProbeMem(in)
    \/ ProbeDisk(in)
    \/ ProbeNet(in)
    \/ ProbeGpu(in)
    \/ ProbeUptime(in)
    \/ ColAssemble
    \/ ColLockRequest
    \/ ColLock
    \/ ColStore
    \/ ColUnlock
    \/ ColWake

(***************************************************************************)
(* getCachedStats                                                          *)
(***************************************************************************)

\* Mutant of RLockFree: a read lock that does not exclude the writer.
RLockFreeIgnoresWriter == TRUE

\* Whether RLock() can return: no writer holds the mutex or waits for it.
RLockFree == ~statsMutex.writer /\ ~statsMutex.waiting

\* Mutant of LoadCachedStats: a read may return any snapshot published so
\* far, as if the snapshots were queued and replayed.
LoadCachedStatsReplays == {cachedStats} \cup (1..cachedStats)

\* Line 134: the values a read of cachedStats may return.  A read while the
\* writer is inside its critical section is a data race with line 124.
LoadCachedStats ==
    IF statsMutex.writer THEN {cachedStats, colStats, TornPtr}
    ELSE {cachedStats}

\* Mutant of ReadersAfterReturn: the read lock is never released.
ReadersAfterReturnKeepsLock(r) == statsMutex.readers

\* Line 133, defer statsMutex.RUnlock(): the readers left holding the mutex
\* when reader r returns from getCachedStats.
ReadersAfterReturn(r) == statsMutex.readers \ {r}

(***************************************************************************)
(* handleWebSocket                                                         *)
(***************************************************************************)

WsFrame ==
    UNCHANGED <<mainVars, goos, staticCPUCores, prevCPUTimes, cpuPercents,
                arrays, heap, cachedStats, colPc, tick, cpuRes, probe,
                colStats, pull, gpuIn, gpuOut>>

\* Lines 523-530: the upgrade succeeds and the loop starts, or fails and the
\* handler returns.
WsUpgrade(c) ==
    /\ Alive /\ ws[c].pc = "accept"
    /\ \E ok \in BOOLEAN :
          ws' = [ws EXCEPT ![c].pc = IF ok THEN "loop" ELSE "refused"]
    /\ WsFrame /\ UNCHANGED statsMutex

\* Lines 533 and 132: statsMutex.RLock() returns.
WsRLock(c) ==
    /\ Alive /\ ws[c].pc = "loop"
    /\ RLockFree
    /\ statsMutex' = [statsMutex EXCEPT !.readers = @ \cup {c}]
    /\ ws' = [ws EXCEPT ![c].pc = "held"]
    /\ WsFrame

\* Mutant of WsAfterGet: the loop sends whatever it read.
WsAfterGetAlwaysSends(v) == "send"

\* Lines 534-539: a nil read goes to the backoff sleep, any other to the send.
WsAfterGet(v) == IF v = NilPtr THEN "backoff" ELSE "send"

\* Lines 133-134 and 533-537: getCachedStats returns; an empty cache sends the
\* loop to its 100 ms backoff.
WsGet(c) ==
    /\ Alive /\ ws[c].pc = "held"
    /\ \E v \in LoadCachedStats :
          ws' = [ws EXCEPT ![c].stats = v, ![c].pc = WsAfterGet(v)]
    /\ statsMutex' = [statsMutex EXCEPT !.readers = ReadersAfterReturn(c)]
    /\ WsFrame

\* Mutant of WsAfterBackoff: the loop never comes back from an empty read.
WsAfterBackoffStays == "backoff"

\* Line 536: continue, the loop reads the cache again.
WsAfterBackoff == "loop"

\* Lines 535-536: the backoff sleep returns.
WsBackoff(c) ==
    /\ Alive /\ ws[c].pc = "backoff"
    /\ ws' = [ws EXCEPT ![c].pc = WsAfterBackoff]
    /\ WsFrame /\ UNCHANGED statsMutex

\* Line 539: conn.WriteJSON(stats) succeeds.
WsWriteOK(c) ==
    /\ Alive /\ ws[c].pc = "send"
    /\ ws' = [ws EXCEPT ![c].last = ws[c].stats, ![c].stats = NilPtr,
                        ![c].pc = "sleep"]
    /\ WsFrame /\ UNCHANGED statsMutex

\* Mutant of WsWriteFail: a failed send tears down every connection.
WsWriteFailClosesAll(c) ==
    /\ Alive /\ ws[c].pc = "send"
    /\ ws' = [d \in Conns |-> [ws[d] EXCEPT !.stats = NilPtr, !.pc = "closed"]]
    /\ WsFrame /\ UNCHANGED statsMutex

\* Lines 539-542 and 528: conn.WriteJSON(stats) fails; the loop breaks and the
\* connection is closed.
WsWriteFail(c) ==
    /\ Alive /\ ws[c].pc = "send"
    /\ ws' = [ws EXCEPT ![c].stats = NilPtr, ![c].pc = "closed"]
    /\ WsFrame /\ UNCHANGED statsMutex

\* Line 544: time.Sleep(config.UpdateInterval) returns.
WsWake(c) ==
    /\ Alive /\ ws[c].pc = "sleep"
    /\ ws' = [ws EXCEPT ![c].pc = "loop"]
    /\ WsFrame /\ UNCHANGED statsMutex

handleWebSocket(c) ==
    \/ WsUpgrade(c)
    \/ WsRLock(c)
    \/ WsGet(c)
    \/ WsBackoff(c)
    \/ WsWriteOK(c)
    \/ WsWriteFail(c)
    \/ WsWake(c)

(***************************************************************************)
(* handleStats                                                             *)
(***************************************************************************)

PullFrame ==
    UNCHANGED <<mainVars, goos, staticCPUCores, prevCPUTimes, cpuPercents,
                arrays, heap, cachedStats, colPc, tick, cpuRes, probe,
                colStats, ws, gpuIn, gpuOut>>

\* Lines 513 and 132: a request arrives, statsMutex.RLock() returns.
PullRLock(h) ==
    /\ Alive /\ pull[h].pc = "idle"
    /\ RLockFree
    /\ statsMutex' = [statsMutex EXCEPT !.readers = @ \cup {h}]
    /\ pull' = [pull EXCEPT ![h].pc = "held"]
    /\ PullFrame

\* Lines 133-134 and 513: getCachedStats returns.
PullGet(h) ==
    /\ Alive /\ pull[h].pc = "held"
    /\ \E v \in LoadCachedStats :
          pull' = [pull EXCEPT ![h].stats = v, ![h].pc = "respond"]
    /\ statsMutex' = [statsMutex EXCEPT !.readers = ReadersAfterReturn(h)]
    /\ PullFrame

\* Mutant of PullStatus: the handler never reports the cache as empty.
PullStatusAlwaysOK(stats) == 200

\* Lines 514-519: StatusServiceUnavailable when stats is nil, else 200.
PullStatus(stats) == IF stats = NilPtr THEN 503 ELSE 200

\* Lines 514-519: 503 when stats is nil, else the encoded snapshot.
PullRespond(h) ==
    /\ Alive /\ pull[h].pc = "respond"
    /\ pull' = [pull EXCEPT
                   ![h].resp = IF PullStatus(pull[h].stats) = 503
                               THEN Some([code |-> 503, body |-> NilPtr])
                               ELSE Some([code |-> PullStatus(pull[h].stats),
                                          body |-> pull[h].stats]),
                   ![h].stats = NilPtr,
                   ![h].pc = "idle"]
    /\ PullFrame /\ UNCHANGED statsMutex

handleStats(h) ==
    \/ PullRLock(h)
    \/ PullGet(h)
    \/ PullRespond(h)

(***************************************************************************)
(* main                                                                    *)
(***************************************************************************)

\* var config Config before loadConfig: the zero value.
ZeroConfig ==
    [Port |-> <<>>, DiskPath |-> <<>>, Hostname |-> <<>>,
     UpdateInterval |-> Bits64(<<>>)]

\* Lines 551-557: main calls loadConfig, then starts the collector and serves.
MainLoadConfig ==
    /\ mainPc = "loadConfig"
    /\ config' = loadConfig(env)
    /\ mainPc' = "serve"
    /\ UNCHANGED <<env, memIn, memOut, goos, staticCPUCores, prevCPUTimes,
                   cpuPercents, arrays, heap, cachedStats, statsMutex, colPc,
                   tick, cpuRes, probe, colStats, ws, pull, gpuIn, gpuOut>>

(***************************************************************************)
(* The server: collector, streaming connections and pull handlers          *)
(***************************************************************************)

Init == InitOn({"linux"}, {1})
Next ==
    \/ Collector(ServeInputs)
    \/ \E c \in Conns : handleWebSocket(c)
    \/ \E h \in Pulls : handleStats(h)
Spec == Init /\ [][Next]_vars

\* The collector with streaming connections only.  The Go scheduler keeps
\* running the collector and a reader between RLock and RUnlock; a send or a
\* sleep may never return, and no connection need ever arrive.
Fairness ==
    /\ WF_vars(Collector(ServeInputs))
    /\ \A c \in Conns : WF_vars(WsGet(c))
NextLive ==
    \/ Collector(ServeInputs)
    \/ \E c \in Conns : handleWebSocket(c)
SpecLive == Init /\ [][NextLive]_vars /\ Fairness

\* The collector with streaming connections only, any scheduling.
SpecStream == Init /\ [][NextLive]_vars

(***************************************************************************)
(* Specifications of the parts                                             *)
(***************************************************************************)

\* The collector alone, every probe fallible.
InitProbes == InitOn({"linux"}, {1})
NextProbes == Collector(ProbeInputs)
SpecProbes == InitProbes /\ [][NextProbes]_vars

\* The collector alone, CPU samples of one or two cores.
InitDelta == InitOn({"linux"}, {1})
NextDelta == Collector(DeltaInputs)
SpecDelta == InitDelta /\ [][NextDelta]_vars

\* The collector alone, the number of cores reported varying.
InitCores == InitOn({"linux"}, {1})
NextCores == Collector(CoresInputs)
SpecCores == InitCores /\ [][NextCores]_vars

\* The collector alone, the assembled readings varied.
InitAssemble == InitOn({"linux"}, {1})
NextAssemble == Collector(AssembleInputs)
SpecAssemble == InitAssemble /\ [][NextAssemble]_vars

\* The collector and a pull handler, both mandatory probes fallible.
InitMandatory == InitOn({"linux"}, {1})
NextMandatory ==
    \/ Collector(MandatoryInputs)
    \/ \E h \in Pulls : handleStats(h)
SpecMandatory == InitMandatory /\ [][NextMandatory]_vars

\* main from its start, under every setting of the environment, with the
\* collector and one streaming connection.
Environments ==
    {[NoEnv EXCEPT !["UPDATE_INTERVAL_MS"] = v] : v \in IntervalSettings}
    \cup {[NoEnv EXCEPT !["UPDATE_INTERVAL"] = Numeral(<<n>>)] : n \in 1..5}
InitConfig ==
    /\ env \in Environments
    /\ config = ZeroConfig
    /\ mainPc = "loadConfig"
    /\ memIn = None
    /\ memOut = None
    /\ InitServer({"linux"}, {1})
NextConfig ==
    \/ MainLoadConfig
    \/ mainPc = "serve" /\ Collector(ConfigInputs)
    \/ mainPc = "serve" /\ handleWebSocket("c1")
SpecConfig == InitConfig /\ [][NextConfig]_vars

\* The strings parseMemoryValue is studied on: a decimal numeral, followed or
\* not by a unit suffix in any letter case, with or without a space before,
\* between and after.  digits and unit say how the string s was composed.
LargeSizes ==
    {<<5, 1, 2>>, <<0, 0, 8>>,
     <<1, 7, 1, 7, 9, 8, 6, 9, 1, 8, 3>>,
     <<1, 7, 1, 7, 9, 8, 6, 9, 1, 8, 4>>,
     <<9, 0, 0, 7, 1, 9, 9, 2, 5, 4, 7, 4, 0, 9, 9, 2>>,
     <<9, 0, 0, 7, 1, 9, 9, 2, 5, 4, 7, 4, 0, 9, 9, 3>>,
     <<9, 0, 0, 7, 1, 9, 9, 2, 5, 4, 7, 4, 0, 9, 9, 5>>,
     <<1, 8, 4, 4, 6, 7, 4, 4, 0, 7, 3, 7, 0, 9, 5, 5, 1, 6, 1, 5>>}
Sizes == UNION {[1..n -> 0..9] : n \in 1..MaxNumLen} \cup LargeSizes
UnitSpellings(unit) ==
    IF unit = "" THEN {<<>>}
    ELSE {<<u, b>> : <<u, b>> \in
             (IF unit = "G" THEN {"G", "g"}
              ELSE IF unit = "M" THEN {"M", "m"} ELSE {"K", "k"})
             \X {"B", "b"}}
Pads == {<<>>, <<" ">>}
SpeltUnits ==
    UNION {{<<u, sp>> : sp \in UnitSpellings(u)} : u \in {"", "K", "M", "G"}}
MemoryStrings ==
    {[digits |-> ds, unit |-> us[1],
      s |-> p[1] \o Numeral(ds) \o p[2] \o us[2] \o p[3]] :
        ds \in Sizes, us \in SpeltUnits, p \in Pads \X Pads \X Pads}

\* Lines 249 and 256: parseMemoryValue is called and returns.
CallParseMemoryValue ==
    /\ memIn # None /\ memOut = None
    /\ \E r \in parseMemoryValue(memIn[1].s) : memOut' = Some(r)
    /\ UNCHANGED <<env, config, mainPc, memIn, goos, staticCPUCores,
                   prevCPUTimes, cpuPercents, arrays, heap, cachedStats,
                   statsMutex, colPc, tick, cpuRes, probe, colStats, ws,
                   pull, gpuIn, gpuOut>>
InitMem ==
    /\ env = NoEnv
    /\ config = loadConfig(NoEnv)
    /\ mainPc = "serve"
    /\ memIn \in {Some(m) : m \in MemoryStrings}
    /\ memOut = None
    /\ InitServer({"linux"}, {1})
NextMem == CallParseMemoryValue
SpecMem == InitMem /\ [][NextMem]_vars

\* getGPUStats applied to every combination of backend answers.
CallGetGPUStats ==
    /\ \E o \in GpuAnswers : gpuIn' = o /\ gpuOut' = getGPUStats(goos, o)
    /\ UNCHANGED <<mainVars, goos, staticCPUCores, prevCPUTimes, cpuPercents,
                   arrays, heap, cachedStats, statsMutex, colPc, tick, cpuRes,
                   probe, colStats, ws, pull>>
InitGPU == InitOn({"linux", "windows", "darwin"}, {1})
NextGPU == CallGetGPUStats
SpecGPU == InitGPU /\ [][NextGPU]_vars

(***************************************************************************)
(* Properties                                                              *)
(***************************************************************************)

\* The snapshot at address p as a reader sees it: the object with its
\* Percent slice dereferenced.
Snapshot(p) == [heap[p] EXCEPT !.CPU.Percent = arrays[heap[p].CPU.Percent]]

\* The current iteration has seen a mandatory probe return no reading.
MandatoryFailed ==
    /\ tick > 0
    /\ \/ "mem" \notin probe.pending /\ probe.memInfo = None
       \/ "disk" \notin probe.pending /\ probe.diskInfo = None

\* C1: from the moment the memory or the disk probe of an iteration has
\* failed until the next iteration starts, no step changes the cache slot or
\* the snapshot it holds, and every getCachedStats that returns in between
\* returns the slot's value (the last published snapshot, or nil).
C1_FailedTickKeepsCache ==
    [][MandatoryFailed =>
          /\ cachedStats' = cachedStats
          /\ cachedStats # NilPtr => Snapshot(cachedStats)' = Snapshot(cachedStats)
          /\ \A h \in Pulls :
                (pull[h].pc = "held" /\ pull'[h].pc = "respond")
                    => pull'[h].stats = cachedStats]_vars

\* C1 witness: the iteration after a published one failed, it is over, and a
\* pull handler has just read the retained snapshot.
C1_Witness ==
    /\ MandatoryFailed /\ colPc = "sleep" /\ tick > 1
    /\ cachedStats # NilPtr
    /\ \E h \in Pulls : pull[h].pc = "respond" /\ pull[h].stats = cachedStats

\* The snapshots published so far: every object allocated, but the one the
\* collector has assembled and not stored yet.
Published ==
    {p \in 1..Len(heap) :
        ~(p = colStats /\ colPc \in {"lock", "lockwait", "store"})}

\* C2: whatever the interleaving of the collector's publish with the readers,
\* every value a streaming loop or a pull handler got from getCachedStats, sent
\* or answered is nil or the address of a complete snapshot that was published.
C2_ReadsArePublishedSnapshots ==
    /\ \A c \in Conns :
          /\ ws[c].stats \in Published \cup {NilPtr}
          /\ ws[c].last \in Published \cup {NilPtr}
    /\ \A h \in Pulls :
          /\ pull[h].stats \in Published \cup {NilPtr}
          /\ pull[h].resp # None => pull[h].resp[1].body \in Published \cup {NilPtr}

\* C2 witness: the collector is about to publish a second snapshot while a
\* streaming loop holds the read lock and a pull handler holds the first one.
C2_Witness ==
    /\ colPc = "lockwait" /\ colStats > cachedStats /\ cachedStats # NilPtr
    /\ \E c \in Conns : c \in statsMutex.readers
    /\ \E h \in Pulls : pull[h].pc = "respond" /\ pull[h].stats = cachedStats

\* C3: a failed send on connection c ends that connection's loop and changes
\* nothing else: not the cache, the snapshots, the mutex, the collector, any
\* other connection or any pull handler.
C3_SendFailureIsLocal ==
    [][\A c \in Conns :
          (ws[c].pc = "send" /\ ws'[c].pc = "closed") =>
              /\ cachedStats' = cachedStats
              /\ heap' = heap /\ arrays' = arrays
              /\ statsMutex' = statsMutex
              /\ c \notin statsMutex'.readers
              /\ colPc' = colPc /\ tick' = tick /\ colStats' = colStats
              /\ probe' = probe
              /\ \A d \in Conns \ {c} : ws'[d] = ws[d]
              /\ pull' = pull]_vars

\* C3 witness: one connection was closed by a send failure before the second
\* snapshot existed, the other has since delivered the second snapshot, and
\* the collector is in a later iteration.
C3_Witness ==
    \E c, d \in Conns :
        /\ ws[c].pc = "closed" /\ ws[c].last = NilPtr
        /\ ws[d].pc = "sleep" /\ ws[d].last = cachedStats
        /\ cachedStats # NilPtr /\ tick > 1 /\ colPc = "probe"

\* C4: with only the collector and the readers' critical sections scheduled
\* (sends and sleeps may block forever), every iteration up to the explored
\* bound is started and completed, and every snapshot assembled is published.
C4_CollectorNotStalled ==
    /\ \A n \in 1..MaxTicks : <>(tick = n /\ colPc = "sleep")
    /\ (colPc = "lock") ~> (colPc = "sleep" /\ cachedStats = colStats)

\* C4 witness: the collector has completed its last explored iteration and
\* published, while one connection is still in a send and another asleep.
C4_Witness ==
    /\ tick = MaxTicks /\ colPc = "sleep" /\ cachedStats = colStats
    /\ cachedStats # NilPtr
    /\ \E c, d \in Conns : ws[c].pc = "send" /\ ws[c].stats < cachedStats
                           /\ ws[d].pc = "sleep"

\* The iteration is over (the collector sleeps or is about to start the next
\* one) and the locals of its getStatsNonBlocking call are still in place.
TickOver == tick > 0 /\ colPc \in {"sleep", "tick"} /\ probe.pending = {}

HasTraffic(n) == n.BytesSent > 0 \/ n.BytesRecv > 0

\* C5: an iteration whose memory and disk probes succeeded has published its
\* snapshot, whatever the network, GPU and uptime probes did: a failed reading
\* is empty/absent/0 in it and every other reading is the probe's.
C5_OptionalFailuresStillPublish ==
    (TickOver /\ probe.memInfo # None /\ probe.diskInfo # None) =>
        /\ cachedStats # NilPtr /\ cachedStats = colStats
        /\ cachedStats = Len(heap)
        /\ LET st == Snapshot(cachedStats) IN
            /\ probe.netInfo = None => st.Network = <<>>
            /\ probe.netInfo # None =>
                   st.Network = SelectSeq(probe.netInfo[1], HasTraffic)
            /\ st.GPU = gpuOut
            /\ probe.hostInfo = None => st.Uptime = 0
            /\ probe.hostInfo # None => st.Uptime = probe.hostInfo[1].Uptime
            /\ st.Memory.Total = probe.memInfo[1].Total
            /\ st.Memory.Used = probe.memInfo[1].Used
            /\ st.Memory.UsedPercent = probe.memInfo[1].UsedPercent
            /\ st.Disk.Total = probe.diskInfo[1].Total
            /\ st.Disk.Used = probe.diskInfo[1].Used
            /\ st.Disk.UsedPercent = probe.diskInfo[1].UsedPercent

\* C5 witness: the network, GPU and uptime probes all failed in an iteration
\* that published.
C5_Witness ==
    /\ TickOver /\ probe.memInfo # None /\ probe.diskInfo # None
    /\ probe.netInfo = None /\ gpuOut = None /\ probe.hostInfo = None
    /\ cachedStats = Len(heap) /\ cachedStats # NilPtr
    /\ Snapshot(cachedStats).Uptime = 0

\* C6 as claimed: an iteration whose CPU-times probe failed while memory and
\* disk succeeded has published a snapshot whose utilization is absent or all
\* zero.
C6_CpuFailureReadsZero ==
    (TickOver /\ cpuRes = None /\ probe.memInfo # None /\ probe.diskInfo # None) =>
        /\ cachedStats # NilPtr /\ cachedStats = colStats
        /\ \A i \in DOMAIN Snapshot(cachedStats).CPU.Percent :
              Snapshot(cachedStats).CPU.Percent[i] = RatZero

StageYield(k, o) ==
    CASE k = 1 -> IF o.rocm = None THEN None ELSE parseRocmSMI(o.rocm[1])
      [] k = 2 -> getAMDFromSysfs(o.sysfs)
      [] k = 3 -> getNVIDIAGPU(o)
      [] k = 4 -> getWindowsGPU(o)
Named(g) == g # None /\ g[1].Name # ""
ApplicableStages(os) ==
    IF os = "linux" THEN {1, 2, 3} ELSE IF os = "windows" THEN {3, 4} ELSE {3}
FirstNamedStage(os, o) ==
    LET ks == {k \in ApplicableStages(os) : Named(StageYield(k, o))}
    IN  IF ks = {} THEN None
        ELSE StageYield(CHOOSE k \in ks : \A j \in ks : k <= j, o)

\* C8 as claimed: getGPUStats returns the reading of the first applicable stage,
\* in the order 1, 2, 3, 4, that yields a named device, and nil if none does.
C8_FirstNamedStageWins == gpuOut = FirstNamedStage(goos, gpuIn)

InRange(x) ==
    x # NotFinite /\ RatLeq(RatZero, x) /\ RatLeq(x, RatOfInt(100))

\* updateCPUPercents has just processed the sample cpuRes' against a previous
\* sample.
DeltaStep ==
    /\ colPc \in {"init", "tick"} /\ colPc' # colPc
    /\ cpuRes' # None /\ prevCPUTimes # <<>>
TotalDelta(i) == TotalTime(cpuRes'[1][i]) - TotalTime(prevCPUTimes[i])

\* C9 as claimed: for successive samples of equal length, every core whose
\* total delta is positive gets a utilization within [0, 100].
C9_UtilizationInRange ==
    [][(DeltaStep /\ Len(cpuRes'[1]) = Len(prevCPUTimes)) =>
          \A i \in 1..Len(prevCPUTimes) :
              (TotalDelta(i) > 0 /\ i <= Len(arrays'[cpuPercents'])) =>
                  InRange(arrays'[cpuPercents'][i])]_vars

\* C10: when updateCPUPercents processes a sample, every core whose total
\* delta is not positive keeps its utilization, no entry of the vector is the
\* result of a division by zero, and if no core's delta is positive the call
\* returns normally with the whole vector unchanged.
C10_ZeroDeltaHoldsValue ==
    [][DeltaStep =>
          LET n == Min(Len(cpuRes'[1]), Len(prevCPUTimes))
              old == arrays[cpuPercents]
              new == arrays'[cpuPercents']
          IN  /\ Len(new) = Len(old)
              /\ \A i \in 1..Min(n, Len(old)) :
                    TotalDelta(i) <= 0 => new[i] = old[i]
              /\ \A i \in 1..Len(new) : new[i] # NotFinite
              /\ (\A i \in 1..n : TotalDelta(i) <= 0) =>
                    /\ new = old
                    /\ colPc' # "crashed"
                    /\ prevCPUTimes' = cpuRes'[1]]_vars

\* C10 witness: in the second iteration the core's total time did not advance
\* (it stands at 1, having been 0 at startup) and the 100% computed in the
\* first iteration is still in the vector.
C10_Witness ==
    /\ tick = 2 /\ colPc = "probe" /\ cpuRes # None
    /\ Len(prevCPUTimes) = 1 /\ TotalTime(prevCPUTimes[1]) = 1
    /\ arrays[cpuPercents][1] = RatOfInt(100)

\* C11: a pull request reads the cache once, under the read lock; its answer
\* is 503 exactly when that read returned nil, and otherwise 200 with the
\* snapshot read, which no step changes between the read and the answer.
C11_PullAnswersWhatItRead ==
    [][\A h \in Pulls :
          /\ (pull[h].pc = "held" /\ pull'[h].pc = "respond") =>
                 pull'[h].stats = cachedStats
          /\ (pull[h].pc = "respond" /\ pull'[h].pc = "respond") =>
                 /\ pull'[h].stats = pull[h].stats
                 /\ pull[h].stats # NilPtr =>
                        Snapshot(pull[h].stats)' = Snapshot(pull[h].stats)
          /\ (pull[h].pc = "respond" /\ pull'[h].pc = "idle") =>
                 /\ pull'[h].resp # None
                 /\ pull'[h].resp[1].code = 503 <=> pull[h].stats = NilPtr
                 /\ pull[h].stats # NilPtr =>
                        /\ pull'[h].resp[1].code = 200
                        /\ pull'[h].resp[1].body = pull[h].stats]_vars

\* C11 witness: a request that read the empty cache was answered 503; the next
\* one read the first snapshot and is about to answer while the cache already
\* holds the second.
C11_Witness ==
    \E h \in Pulls :
        /\ pull[h].resp # None /\ pull[h].resp[1].code = 503
        /\ pull[h].pc = "respond" /\ pull[h].stats # NilPtr
        /\ cachedStats # NilPtr /\ cachedStats # pull[h].stats

\* C12: once a snapshot has been published the cache slot is never nil
\* again, whatever probes fail afterwards; every getCachedStats that returns
\* from then on returns a snapshot, and a request that read one is not
\* answered 503.
C12_NeverEmptyAgain ==
    [][/\ cachedStats # NilPtr => cachedStats' # NilPtr
       /\ \A h \in Pulls :
             /\ (cachedStats # NilPtr /\ pull[h].pc = "held"
                   /\ pull'[h].pc = "respond") =>
                    pull'[h].stats \in 1..Len(heap)
             /\ (pull[h].pc = "respond" /\ pull'[h].pc = "idle"
                   /\ pull[h].stats # NilPtr) =>
                    pull'[h].resp[1].code # 503]_vars

\* C12 witness: the iteration after a published one failed on a mandatory
\* probe, and a pull request has been answered with the snapshot still cached.
C12_Witness ==
    /\ MandatoryFailed /\ tick > 1 /\ colPc \in {"sleep", "tick"}
    /\ cachedStats # NilPtr
    /\ \E h \in Pulls :
          /\ pull[h].pc = "idle" /\ pull[h].resp # None
          /\ pull[h].resp[1].code = 200 /\ pull[h].resp[1].body = cachedStats

\* C13: in every iteration of a streaming loop the value read is the cache
\* slot's; a nil read leads to the backoff and from there only back to the
\* read, with nothing sent and the connection left open; any other read leads
\* to the send of exactly that snapshot.  Nothing is delivered unless the loop
\* is sending a snapshot it read, so nothing is delivered while the cache is
\* empty.
C13_NoSendOnEmptyCache ==
    [][\A c \in Conns :
          /\ (ws[c].pc = "held" /\ ws'[c].pc # "held") =>
                 /\ ws'[c].stats = cachedStats
                 /\ ws'[c].last = ws[c].last
                 /\ ws'[c].pc = IF cachedStats = NilPtr THEN "backoff" ELSE "send"
          /\ (ws[c].pc = "backoff" /\ ws'[c].pc # "backoff") =>
                 /\ ws'[c].pc = "loop"
                 /\ ws'[c].last = ws[c].last
          /\ ws[c].pc = "send" => ws[c].stats \in 1..Len(heap)
          /\ ws'[c].last # ws[c].last =>
                 /\ ws[c].pc = "send" /\ ws'[c].pc = "sleep"
                 /\ ws'[c].last = ws[c].stats
                 /\ ws'[c].last \in 1..Len(heap)
                 /\ cachedStats # NilPtr
          /\ ws'[c].pc = "closed" => ws[c].pc \in {"send", "closed"}]_vars

\* C13 witness: one connection read the empty cache and is still in its
\* backoff, having received nothing; the other's reads were non-empty and it
\* has been sent the second snapshot.
C13_Witness ==
    \E c, d \in Conns :
        /\ ws[c].pc = "sleep" /\ ws[c].last = cachedStats /\ cachedStats > 1
        /\ ws[d].pc = "backoff" /\ ws[d].last = NilPtr

\* The loop of handleWebSocket once the connection is open.
WsLoop(c) ==
    \/ WsRLock(c)
    \/ WsGet(c)
    \/ WsBackoff(c)
    \/ WsWriteOK(c)
    \/ WsWriteFail(c)
    \/ WsWake(c)

\* The collector is scheduled; each open connection's loop is scheduled, and
\* an RLock that waits for the writer is granted once the writer unlocks.
FairnessStream ==
    /\ WF_vars(Collector(ServeInputs))
    /\ \A c \in Conns : WF_vars(WsLoop(c)) /\ SF_vars(WsRLock(c))
SpecStreamLive == Init /\ [][NextLive]_vars /\ FairnessStream

\* Connection c is open: upgraded and not ended by a failed send.
WsOpen(c) == ws[c].pc \in {"loop", "held", "backoff", "send", "sleep"}

\* C14: while the cache is empty an open connection has been sent nothing, is
\* not sending and has not been closed; and an open connection that has been
\* sent nothing is, once a snapshot is published, eventually sent one (or its
\* send fails and it is closed, so it was not kept open).
C14_FirstSnapshotArrives ==
    /\ [](cachedStats = NilPtr =>
             \A c \in Conns : ws[c].last = NilPtr
                              /\ ws[c].pc \notin {"send", "sleep", "closed"})
    /\ \A c \in Conns :
          (WsOpen(c) /\ ws[c].last = NilPtr /\ cachedStats # NilPtr)
              ~> (ws[c].last # NilPtr \/ ws[c].pc = "closed")

\* C14 witness: the only snapshot published so far has reached a connection
\* while the collector is in its second iteration.
C14_Witness ==
    \E c \in Conns :
        /\ ws[c].pc = "sleep" /\ ws[c].last = 1 /\ cachedStats = 1
        /\ tick = 2 /\ Len(heap) = 1

\* C15: no step changes any field of a snapshot once it is constructed: its
\* scalar readings, its network list, its GPU reading and the contents of its
\* per-core utilization vector stay what they were, while the delta tracker
\* goes on updating its own vector in place.
C15_SnapshotsImmutable ==
    [][\A p \in 1..Len(heap) :
          /\ p \in 1..Len(heap')
          /\ heap'[p] = heap[p]
          /\ Snapshot(p)' = Snapshot(p)]_vars

\* C15 witness: the first snapshot is published and still reads 100% on a
\* core for which the tracker's vector, updated by a later sample, reads
\* something else.
C15_Witness ==
    /\ 1 \in Published /\ tick = 2 /\ cpuPercents # NilPtr
    /\ \E i \in DOMAIN arrays[cpuPercents] :
          /\ i \in DOMAIN Snapshot(1).CPU.Percent
          /\ Snapshot(1).CPU.Percent[i] = RatOfInt(100)
          /\ arrays[cpuPercents][i] # RatOfInt(100)

\* The floor of the interval, 100 ms, in nanoseconds.
FloorNs == NatOf(100 * 1000 * 1000)

\* C16 as claimed: whatever UPDATE_INTERVAL_MS holds, the duration the
\* collector loop and a streaming loop pass to time.Sleep between iterations
\* is at least 100 ms.
C16_SleepsAtLeastFloor ==
    (colPc = "sleep" \/ \E c \in Conns : ws[c].pc = "sleep") =>
        Int64AtLeast(config.UpdateInterval, FloorNs)

\* The interval the README documents: UPDATE_INTERVAL seconds, 1 when unset.
ReadmeInterval(environ) ==
    Milliseconds(NatMulAdd(Atoi(getEnv(environ, "UPDATE_INTERVAL",
                                       Numeral(<<1>>))).mag, 1000, 0))

\* C19 as claimed: a streaming loop sleeps UPDATE_INTERVAL seconds between
\* updates, 1 second when the variable is not set.
C19_IntervalIsUpdateIntervalSeconds ==
    (\E c \in Conns : ws[c].pc = "sleep") =>
        config.UpdateInterval = ReadmeInterval(env)

\* C17: when an iteration's sample is processed against the previous one, each
\* core whose total delta is positive reads 100 * (1 - idle_delta/total_delta);
\* and the snapshot assembled carries the tracker's vector, the memory and
\* disk probes' total, used and usedPercent, the probe's interfaces with
\* sent > 0 or received > 0 in the probe's order, and the GPU probe's result,
\* absent when the probe returned nothing.
C17_SnapshotReportsProbes ==
    [][/\ (DeltaStep /\ Len(cpuRes'[1]) = Len(prevCPUTimes)) =>
             \A i \in 1..Len(prevCPUTimes) :
                 TotalDelta(i) > 0 =>
                     arrays'[cpuPercents'][i] =
                         Rat(100 * (TotalDelta(i)
                               - (cpuRes'[1][i].Idle - prevCPUTimes[i].Idle)),
                             TotalDelta(i))
       /\ Len(heap') > Len(heap) =>
             LET st == heap'[Len(heap')] IN
             /\ arrays'[st.CPU.Percent] = arrays[cpuPercents]
             /\ st.Memory.Total = probe.memInfo[1].Total
             /\ st.Memory.Used = probe.memInfo[1].Used
             /\ st.Memory.UsedPercent = probe.memInfo[1].UsedPercent
             /\ st.Disk.Total = probe.diskInfo[1].Total
             /\ st.Disk.Used = probe.diskInfo[1].Used
             /\ st.Disk.UsedPercent = probe.diskInfo[1].UsedPercent
             /\ st.Network = IF probe.netInfo = None THEN <<>>
                             ELSE SelectSeq(probe.netInfo[1], HasTraffic)
             /\ st.GPU = gpuOut
             /\ getGPUStats(goos, gpuIn) = None => st.GPU = None]_vars

\* C17 witness: idle delta 50 of total delta 100, memory 4 of 8, disk 50 of
\* 100, one interface with traffic and no GPU: the snapshot published reads
\* 50%, 50, 50, one network entry and no GPU.
C17_Witness ==
    /\ cachedStats # NilPtr /\ cachedStats = Len(heap) /\ tick = 1
    /\ cpuRes = Some(<<TimesStat(50, 50, 0)>>)
    /\ probe.netInfo = Some(<<IOCounter("lo", 0, 0), Eth0>>)
    /\ LET st == Snapshot(cachedStats) IN
          /\ st.CPU.Percent = <<RatOfInt(50)>>
          /\ st.Memory.UsedPercent = RatOfInt(50)
          /\ st.Disk.UsedPercent = RatOfInt(50)
          /\ st.Network = <<[Name |-> "eth0", BytesSent |-> 100,
                             BytesRecv |-> 200]>>
          /\ st.GPU = None

\* n * 1024, n * 1024^2 or n * 1024^3 for the numeral and the unit of the call.
ExactBytes ==
    NatShl(ParseNat(Numeral(memIn[1].digits), <<>>),
           CASE memIn[1].unit = "G" -> 30
             [] memIn[1].unit = "M" -> 20
             [] memIn[1].unit = "K" -> 10
             [] OTHER -> 0)

\* C18 as claimed: for every non-negative integer n, whatever the letter case
\* of the suffix and the spaces around, parseMemoryValue returns n times the
\* binary multiplier of the suffix, or n when there is none.
C18_ParsesEveryInteger ==
    memOut # None => NatTrim(memOut[1]) = ExactBytes

\* The largest integer up to which every integer is a float64: 2^53.
MaxExactFloat == NatShl(NatOf(1), 53)

\* C18 as amended: the same for every n of at most 2^53 whose product with
\* the multiplier is below 2^64.
C18_ParsesExactIntegers ==
    (/\ memOut # None
     /\ ~NatLess(MaxExactFloat, ParseNat(Numeral(memIn[1].digits), <<>>))
     /\ NatBitLen(ExactBytes) <= 64) =>
        NatTrim(memOut[1]) = ExactBytes

\* C18 witness: " 512 mB " has been parsed to 512 * 1024^2.
C18_Witness ==
    /\ memIn # None /\ memOut # None
    /\ memIn[1].s = <<" ", "5", "1", "2", " ", "m", "B", " ">>
    /\ NatTrim(memOut[1]) = NatOf(512 * 1024 * 1024)

FiveProbes == {"mem", "disk", "net", "gpu", "uptime"}

\* C20: in every iteration the tracker is updated only with the sample the
\* CPU-times probe has returned; the five probes are started together and any
\* of those still running may finish next; a snapshot is constructed only
\* once all five have finished, at most once per iteration; and the cache
\* slot only ever changes to the snapshot constructed in the current
\* iteration, so at most one snapshot is published per iteration.
C20_TickOrder ==
    /\ [][/\ (prevCPUTimes' # prevCPUTimes \/ arrays' # arrays
                \/ cpuPercents' # cpuPercents) =>
                \/ cpuRes' # None /\ prevCPUTimes' = cpuRes'[1]
                \/ Len(heap') > Len(heap)
          /\ (colPc' = "probe" /\ colPc # "probe") =>
                tick' = tick + 1 /\ probe'.pending = FiveProbes
          /\ probe'.pending # probe.pending =>
                \/ colPc # "probe" /\ colPc' = "probe"
                \/ /\ colPc = "probe" /\ colPc' = "probe"
                   /\ \E p \in probe.pending :
                         probe'.pending = probe.pending \ {p}
          /\ Len(heap') # Len(heap) =>
                /\ colPc = "probe" /\ colPc' # "probe"
                /\ probe.pending = {}
                /\ Len(heap') = Len(heap) + 1
                /\ colStats' = Len(heap')
          /\ cachedStats' # cachedStats =>
                /\ colPc = "store"
                /\ cachedStats' = Len(heap) /\ cachedStats' = colStats
                /\ cachedStats' > cachedStats]_vars
    /\ [](Len(heap) <= tick)
    /\ [](colPc = "probe" =>
            /\ "mem" \in probe.pending => ENABLED ProbeMem(ProbeInputs)
            /\ "disk" \in probe.pending => ENABLED ProbeDisk(ProbeInputs)
            /\ "net" \in probe.pending => ENABLED ProbeNet(ProbeInputs)
            /\ "gpu" \in probe.pending => ENABLED ProbeGpu(ProbeInputs)
            /\ "uptime" \in probe.pending => ENABLED ProbeUptime(ProbeInputs))

\* C20 witness: in the second iteration the memory probe is the last one
\* still running, the first iteration's snapshot being published.
C20_Witness ==
    /\ tick = 2 /\ colPc = "probe" /\ probe.pending = {"mem"}
    /\ cachedStats = 1 /\ Len(heap) = 1

\* C21: Stats objects are allocated one per publishing iteration, so their
\* addresses are in publication order, and the cache only moves forward.  On
\* every streaming connection each read of the cache returns the pointer the
\* cache holds at that moment, the loop keeps it until its send, a delivery is
\* the snapshot that iteration read, and it is never older than the one the
\* connection delivered before; nothing else changes what a connection has
\* delivered.
C21_DeliveredInPublicationOrder ==
    [][/\ cachedStats' >= cachedStats
       /\ \A c \in Conns :
             /\ (ws[c].pc = "held" /\ ws'[c].pc # "held") =>
                    ws'[c].stats = cachedStats
             /\ (ws[c].pc = "send" /\ ws'[c].pc = "send") =>
                    ws'[c].stats = ws[c].stats
             /\ (ws[c].pc = "send" /\ ws'[c].pc = "sleep") =>
                    /\ ws'[c].last = ws[c].stats
                    /\ ws'[c].last >= ws[c].last
                    /\ ws'[c].last # NilPtr
             /\ ~(ws[c].pc = "send" /\ ws'[c].pc = "sleep") =>
                    ws'[c].last = ws[c].last]_vars

\* C21 witness: a connection that delivered the first snapshot is at the send
\* of the second, which the cache holds, while the other connection, which
\* read the cache before the second was published, is still at the send of
\* the first.
C21_Witness ==
    \E c, d \in Conns :
        /\ ws[c].pc = "send" /\ ws[c].last = 1 /\ ws[c].stats = 2
        /\ ws[d].pc = "send" /\ ws[d].stats = 1
        /\ cachedStats = 2

\* C22 as claimed: whenever the collector has called Lock to replace the cache
\* slot, Lock can return, whatever the readers are doing.
C22_PublishNeverWaitsForReaders == colPc = "lockwait" => ENABLED ColLock

\* C22, amended: the read lock is held exactly by the readers inside
\* getCachedStats, each of which can return (and release it) at once; when the
\* collector is about to publish it can call Lock, after the call no further
\* reader is let in, Lock can return as soon as no reader is left inside, and
\* the store and Unlock then follow with no reader inside.
C22_PublishWaitsOnlyForReadsInProgress ==
    /\ statsMutex.readers \subseteq Conns \cup Pulls
    /\ \A c \in Conns :
          /\ c \in statsMutex.readers <=> ws[c].pc = "held"
          /\ ws[c].pc = "held" => ENABLED WsGet(c)
    /\ \A h \in Pulls :
          /\ h \in statsMutex.readers <=> pull[h].pc = "held"
          /\ pull[h].pc = "held" => ENABLED PullGet(h)
    /\ colPc = "lock" => ENABLED ColLockRequest
    /\ colPc = "lockwait" =>
          /\ \A c \in Conns : ~ENABLED WsRLock(c)
          /\ \A h \in Pulls : ~ENABLED PullRLock(h)
          /\ statsMutex.readers = {} => ENABLED ColLock
    /\ colPc = "store" => statsMutex.readers = {} /\ ENABLED ColStore
    /\ colPc = "unlock" => statsMutex.readers = {} /\ ENABLED ColUnlock

\* C22 witness: the collector waits in Lock for a pull handler and a streaming
\* loop that are inside getCachedStats, and the other streaming loop, which
\* called getCachedStats after the collector called Lock, waits in RLock.
C22_Witness ==
    /\ colPc = "lockwait" /\ ~ENABLED ColLock
    /\ \E c, d \in Conns, h \in Pulls :
          /\ statsMutex.readers = {c, h}
          /\ ws[d].pc = "loop" /\ ~ENABLED WsRLock(d)

\* C23: the utilization vector is allocated by the first successful sample,
\* with one entry per core of that sample, and never reallocated or resized
\* afterwards.  When a sample with fewer cores than the previous one is
\* processed, every entry of the vector beyond the sample's length keeps its
\* value, and every entry within it is the utilization computed from the two
\* samples where the core's total time advanced and its old value where not.
C23_FewerCoresKeepsTheRest ==
    [][/\ (prevCPUTimes = <<>> /\ cpuRes' # None
             /\ colPc \in {"init", "tick"} /\ colPc' # colPc) =>
                Len(arrays'[cpuPercents']) = Len(cpuRes'[1])
       /\ cpuPercents # NilPtr =>
             /\ cpuPercents' = cpuPercents
             /\ Len(arrays'[cpuPercents]) = Len(arrays[cpuPercents])
       /\ (DeltaStep /\ Len(cpuRes'[1]) < Len(prevCPUTimes)) =>
             LET n   == Len(cpuRes'[1])
                 old == arrays[cpuPercents]
                 new == arrays'[cpuPercents']
             IN  /\ \A i \in 1..Len(new) : i > n => new[i] = old[i]
                 /\ \A i \in 1..Min(n, Len(new)) :
                       new[i] = IF TotalDelta(i) > 0
                                THEN Percent(cpuRes'[1][i].Idle
                                                 - prevCPUTimes[i].Idle,
                                             TotalDelta(i))
                                ELSE old[i]]_vars

\* C23 witness: three cores at startup; the first iteration saw the third
\* busy half of the time, the second iteration's sample has one core only,
\* fully busy: the vector still has three entries, the second and the third
\* as the first iteration left them.
C23_Witness ==
    /\ tick = 2 /\ colPc = "probe" /\ cpuRes # None
    /\ Len(prevCPUTimes) = 1 /\ prevCPUTimes = cpuRes[1]
    /\ arrays[cpuPercents] = <<RatOfInt(100), RatZero, RatOfInt(50)>>

\* C24 as claimed: whatever the cardinalities of the successive samples, every
\* index updateCPUPercents writes (a core both samples have whose total time
\* advanced) is within the utilization vector, and the collector goes on.
C24_DeltaTrackerNeverFatal ==
    [][DeltaStep =>
          /\ \A i \in 1..Min(Len(cpuRes'[1]), Len(prevCPUTimes)) :
                TotalDelta(i) > 0 => i <= Len(arrays[cpuPercents])
          /\ colPc' # "crashed"]_vars

\* updateCPUPercents has just been called by the collector (line 114 or 117).
UpdateCall == colPc \in {"init", "tick"} /\ colPc' # colPc

\* C25 as claimed: in every call of updateCPUPercents in which cpu.Times
\* succeeds the previous sample becomes that call's sample; in every call in
\* which it fails the previous sample and the utilization vector stay as they
\* are; and nothing else, an iteration aborted by a failed mandatory probe
\* included, touches the previous sample, so that the utilization published
\* is the one computed against the latest successful sample.
C25_PreviousSampleFollowsCpuProbe ==
    [][/\ (UpdateCall /\ cpuRes' # None) => prevCPUTimes' = cpuRes'[1]
       /\ (UpdateCall /\ cpuRes' = None) =>
             /\ prevCPUTimes' = prevCPUTimes
             /\ cpuPercents' = cpuPercents
             /\ arrays' = arrays
       /\ ~UpdateCall =>
             /\ prevCPUTimes' = prevCPUTimes
             /\ cpuPercents' = cpuPercents
             /\ cpuPercents # NilPtr =>
                   arrays'[cpuPercents] = arrays[cpuPercents]
       /\ (colPc = "probe" /\ colPc' = "lock") =>
             /\ arrays'[heap'[colStats'].CPU.Percent] = getCPUPercents
             /\ cpuRes # None => prevCPUTimes = cpuRes[1]]_vars

====
